---- MODULE Spec2Model ----
(***************************************************************************)
(* WeatherApp: the transformation pipeline of src/src/transform.py         *)
(* (WeatherTransformer) and the fetch path of the dashboard (src/app.py,   *)
(* src/src/api.py).                                                        *)
(*                                                                         *)
(* A table (pandas DataFrame) is a record [err, cols, rows]: cols is the   *)
(* set of column names, rows the sequence of rows, each a function from    *)
(* column name to value; err is "" for a table and the exception's name    *)
(* when the call raised instead of returning one.  A float is an exact     *)
(* rational <<n, d>> in lowest terms with d > 0; NaN (pandas' absent       *)
(* value) is <<0, 0>>.                                                     *)
(***************************************************************************)
EXTENDS Integers, Sequences, FiniteSets, TLC

VARIABLES
    inp,        \* the table handed to the last transformer call
    out,        \* what that call returned (a table, or err # "")
    op,         \* the last call: "load", "basic", "rolling", ...
    window,     \* the window argument of the last add_rolling_averages call
    flags,      \* the options of the last process_data call
    calls,      \* number of calls made on this table so far
    thresholds, \* the threshold arguments of the last detect_extreme_events call
    stats,      \* the dict the last calculate_statistics call returned, or NoStats
    inp_after,  \* the content of the caller's table object once the last call is over
    fresh,      \* whether the last call's result is an object other than the caller's
    cities,     \* st.session_state['cities'] (<<>> when absent or empty)
    selected,   \* selected_idx + 1 of the city selectbox, 0 when selected_city is None
    start_date, \* the start date widget
    end_date,   \* the end date widget
    options,    \* the three analysis toggles
    last_fetch, \* the arguments of the latest get_historical_weather call, or NoFetch
    session,    \* st.session_state's weather_df, selected_city, analysis_options
    validation, \* the last validate_date_range call: its arguments and what it returned
    request,    \* the HTTP request a WeatherAPI method is waiting on, or NoRequest
    sent,       \* the HTTP requests issued since the caller last invoked a WeatherAPI method
    returned    \* what the last WeatherAPI method returned

tvars == <<inp, out, op, window, flags, calls, thresholds, stats, inp_after, fresh>>
avars == <<cities, selected, start_date, end_date, options, last_fetch, session>>
svars == <<validation, request, sent, returned>>
vars == <<inp, out, op, window, flags, calls, thresholds, stats, inp_after, fresh,
          cities, selected, start_date, end_date, options, last_fetch, session,
          validation, request, sent, returned>>

(***************************************************************************)
(* Bounds of the model.                                                    *)
(***************************************************************************)
MaxRows == 4
MaxCalls == 3
AnalysisCalls == 2

(***************************************************************************)
(* Exact arithmetic on floats.                                             *)
(***************************************************************************)
NaN == <<0, 0>>

isna(x) == x[2] = 0

Abs(n) == IF n < 0 THEN -n ELSE n

RECURSIVE GCD(_, _)
GCD(a, b) == IF b = 0 THEN a ELSE GCD(b, a % b)

Norm(n, d) ==
    LET s == IF d < 0 THEN -1 ELSE 1
        g == GCD(Abs(n), Abs(d))
    IN  <<(s * n) \div g, (s * d) \div g>>

F(n) == <<n, 1>>

FAdd(x, y) == IF isna(x) \/ isna(y) THEN NaN
              ELSE Norm(x[1] * y[2] + y[1] * x[2], x[2] * y[2])

FSub(x, y) == IF isna(x) \/ isna(y) THEN NaN
              ELSE Norm(x[1] * y[2] - y[1] * x[2], x[2] * y[2])

FDivInt(x, k) == IF isna(x) \/ k = 0 THEN NaN ELSE Norm(x[1], x[2] * k)

\* comparisons with NaN are False, as in IEEE 754
FLt(x, y) == ~isna(x) /\ ~isna(y) /\ x[1] * y[2] < y[1] * x[2]
FLe(x, y) == ~isna(x) /\ ~isna(y) /\ x[1] * y[2] <= y[1] * x[2]

(***************************************************************************)
(* Series reductions (pandas skips NaN in sum and mean).                   *)
(***************************************************************************)
\* the sum of the non-NaN values of s[lo..hi], by halves
RECURSIVE SumRange(_, _, _)
SumRange(s, lo, hi) ==
    IF lo > hi THEN F(0)
    ELSE IF lo = hi THEN (IF isna(s[lo]) THEN F(0) ELSE s[lo])
    ELSE LET mid == (lo + hi) \div 2
         IN  FAdd(SumRange(s, lo, mid), SumRange(s, mid + 1, hi))

Valid(s) == SelectSeq(s, LAMBDA x : ~isna(x))

series_sum(s) == SumRange(s, 1, Len(s))

series_mean(s) == FDivInt(SumRange(s, 1, Len(s)), Len(Valid(s)))

Column(rows, c) == [i \in 1..Len(rows) |-> rows[i][c]]

(***************************************************************************)
(* Tables.                                                                 *)
(***************************************************************************)
Table(cols, rows) == [err |-> "", cols |-> cols, rows |-> rows]

\* df[c] on a table without column c, and groupby/agg on a missing column
KeyError == [err |-> "KeyError", cols |-> {}, rows |-> <<>>]

\* df_copy[c] = v on one row
With(r, c, v) == [k \in DOMAIN r \cup {c} |-> IF k = c THEN v ELSE r[k]]

Max(a, b) == IF a > b THEN a ELSE b
Min(a, b) == IF a < b THEN a ELSE b

(***************************************************************************)
(* Calendar fields of a date [y, m, d] (Series.dt.year, .month, .dayofyear) *)
(***************************************************************************)
IsLeap(y) == (y % 4 = 0 /\ y % 100 # 0) \/ y % 400 = 0

DaysInMonth(y, m) ==
    IF m = 2 THEN (IF IsLeap(y) THEN 29 ELSE 28)
    ELSE IF m \in {4, 6, 9, 11} THEN 30 ELSE 31

RECURSIVE DaysBefore(_, _)
DaysBefore(y, m) == IF m = 1 THEN 0 ELSE DaysBefore(y, m - 1) + DaysInMonth(y, m - 1)

dayofyear(date) == DaysBefore(date.y, date.m) + date.d

\* _get_season with `month in [1, 2]` (a faulty variant, for C12): December
\* falls through to the last branch
_get_season_no_december(month) ==
    IF month \in {1, 2} THEN "Winter"
    ELSE IF month \in {3, 4, 5} THEN "Spring"
    ELSE IF month \in {6, 7, 8} THEN "Summer"
    ELSE "Fall"

(***************************************************************************)
(* WeatherTransformer._get_season                                          *)
(***************************************************************************)
_get_season(month) ==
    IF month \in {12, 1, 2} THEN "Winter"
    ELSE IF month \in {3, 4, 5} THEN "Spring"
    ELSE IF month \in {6, 7, 8} THEN "Summer"
    ELSE "Fall"

\* BasicRow with temp_range = |tmax - tmin| (a faulty variant, for C11): an
\* inverted row is silently corrected
BasicRow_abs_range(r) ==
    LET d  == FSub(r["tmax"], r["tmin"])
        r1 == With(r, "tmean", FDivInt(FAdd(r["tmax"], r["tmin"]), 2))
        r2 == With(r1, "temp_range", IF FLt(d, F(0)) THEN FSub(F(0), d) ELSE d)
        r3 == With(r2, "year", r["date"].y)
        r4 == With(r3, "month", r["date"].m)
        r5 == With(r4, "day_of_year", dayofyear(r["date"]))
    IN  With(r5, "season", _get_season(r["date"].m))

(***************************************************************************)
(* WeatherTransformer.add_basic_features                                   *)
(***************************************************************************)
BasicRow(r) ==
    LET r1 == With(r, "tmean", FDivInt(FAdd(r["tmax"], r["tmin"]), 2))
        r2 == With(r1, "temp_range", FSub(r["tmax"], r["tmin"]))
        r3 == With(r2, "year", r["date"].y)
        r4 == With(r3, "month", r["date"].m)
        r5 == With(r4, "day_of_year", dayofyear(r["date"]))
    IN  With(r5, "season", _get_season(r4["month"]))

add_basic_features(df) ==
    IF ~({"tmax", "tmin", "date"} \subseteq df.cols) THEN KeyError
    ELSE Table(df.cols \cup {"tmean", "temp_range", "year", "month", "day_of_year", "season"},
               [i \in 1..Len(df.rows) |-> BasicRow(df.rows[i])])

(***************************************************************************)
(* Series.rolling(window=window, center=True).mean() / .sum()              *)
(* pandas' FixedWindowIndexer: the window of 0-based row i is              *)
(* [i + 1 + offset - window, i + 1 + offset) clipped to [0, n), with       *)
(* offset = (window - 1) // 2; min_periods defaults to window, so a        *)
(* window holding fewer than `window` non-NaN values gives NaN.            *)
(***************************************************************************)
\* WindowOf with center=False (a faulty variant, for C2): the window trails row i
WindowOf_trailing(s, i, w) == SubSeq(s, Max(0, i - w) + 1, i)

WindowOf(s, i, w) ==
    LET offset == (w - 1) \div 2
        end    == Min(Len(s), i + offset)
        start  == Max(0, i + offset - w)
    IN  SubSeq(s, start + 1, end)

\* rolling_mean with min_periods=1 (a faulty variant, for C3): a partial window is averaged
rolling_mean_partial(s, w) ==
    [i \in 1..Len(s) |->
        LET win == WindowOf(s, i, w)
        IN  IF Len(Valid(win)) >= 1 THEN series_mean(win) ELSE NaN]

rolling_mean(s, w) ==
    [i \in 1..Len(s) |->
        LET win == WindowOf(s, i, w)
        IN  IF Len(Valid(win)) >= w THEN series_mean(win) ELSE NaN]

rolling_sum(s, w) ==
    [i \in 1..Len(s) |->
        LET win == WindowOf(s, i, w)
        IN  IF Len(Valid(win)) >= w THEN series_sum(win) ELSE NaN]

(***************************************************************************)
(* WeatherTransformer.add_rolling_averages                                 *)
(***************************************************************************)
add_rolling_averages(df, w) ==
    IF ~({"tmean", "tmax", "tmin", "precipitation"} \subseteq df.cols) THEN KeyError
    ELSE LET a == rolling_mean(Column(df.rows, "tmean"), w)
             b == rolling_mean(Column(df.rows, "tmax"), w)
             c == rolling_mean(Column(df.rows, "tmin"), w)
             p == rolling_sum(Column(df.rows, "precipitation"), w)
         IN  Table(df.cols \cup {"tmean_7d", "tmax_7d", "tmin_7d", "precip_7d"},
                   [i \in 1..Len(df.rows) |->
                       With(With(With(With(df.rows[i], "tmean_7d", a[i]),
                            "tmax_7d", b[i]), "tmin_7d", c[i]), "precip_7d", p[i])])

(***************************************************************************)
(* pd.cut(x, bins=[-inf, -2, -1, 1, 2, inf], labels=[...]): right=True is  *)
(* the default, so bin k is (bins[k], bins[k+1]].                          *)
(***************************************************************************)
\* cut with right=False (a faulty variant, for C1):, bin k is [bins[k], bins[k+1])
cut_left_closed(x) ==
    IF isna(x) THEN "NaN"
    ELSE IF FLt(x, F(-2)) THEN "Very Cold"
    ELSE IF FLt(x, F(-1)) THEN "Cold"
    ELSE IF FLt(x, F(1)) THEN "Normal"
    ELSE IF FLt(x, F(2)) THEN "Warm"
    ELSE "Very Warm"

cut(x) ==
    IF isna(x) THEN "NaN"
    ELSE IF FLe(x, F(-2)) THEN "Very Cold"
    ELSE IF FLe(x, F(-1)) THEN "Cold"
    ELSE IF FLe(x, F(1)) THEN "Normal"
    ELSE IF FLe(x, F(2)) THEN "Warm"
    ELSE "Very Warm"

(***************************************************************************)
(* WeatherTransformer.add_temperature_anomalies                            *)
(***************************************************************************)
\* monthly_climate grouped by (year, month) (a faulty variant, for C9)
monthly_climate_per_year(rows, i) ==
    series_mean(Column(SelectSeq(rows, LAMBDA r : /\ r["month"] = rows[i]["month"]
                                                  /\ r["date"].y = rows[i]["date"].y), "tmean"))

\* monthly_climate as the mean of the whole table (a faulty variant, for C10)
monthly_climate_ungrouped(rows, i) == series_mean(Column(rows, "tmean"))

\* monthly_climate grouped by season instead of month (a faulty variant, for C21)
monthly_climate_by_season(rows, i) ==
    series_mean(Column(SelectSeq(rows, LAMBDA r : r["season"] = rows[i]["season"]), "tmean"))

\* df.groupby('month')['tmean'].transform('mean') at row i
monthly_climate(rows, i) ==
    series_mean(Column(SelectSeq(rows, LAMBDA r : r["month"] = rows[i]["month"]), "tmean"))

add_temperature_anomalies(df) ==
    IF ~({"month", "tmean"} \subseteq df.cols) THEN KeyError
    ELSE Table(df.cols \cup {"temp_anomaly", "monthly_climate", "anomaly_category"},
               [i \in 1..Len(df.rows) |->
                   LET mc == monthly_climate(df.rows, i)
                       an == FSub(df.rows[i]["tmean"], mc)
                   IN  With(With(With(df.rows[i], "temp_anomaly", an),
                            "monthly_climate", mc), "anomaly_category", cut(an))])

(***************************************************************************)
(* WeatherTransformer.aggregate_monthly                                    *)
(***************************************************************************)
\* Series.dt.to_period('M'): the month's ordinal; PeriodIndex.to_timestamp():
\* the first day of that month
\* to_period keyed by month number alone (a faulty variant, for C6)
to_period_month_only(date) == 2023 * 12 + (date.m - 1)

to_period(date) == date.y * 12 + (date.m - 1)

to_timestamp(p) == [y |-> p \div 12, m |-> (p % 12) + 1, d |-> 1]

\* groupby sorts the group keys
RECURSIVE SortedSeq(_)
SortedSeq(S) ==
    IF S = {} THEN <<>>
    ELSE LET lo == CHOOSE x \in S : \A y \in S : x <= y
         IN  <<lo>> \o SortedSeq(S \ {lo})

agg_rules(cols) ==
    LET base == [c \in {"tmax", "tmin", "tmean", "windspeed_max", "temp_range"} |-> "mean"]
                @@ ("precipitation" :> "sum")
        roll == IF "tmean_7d" \in cols
                THEN [c \in {"tmean_7d", "tmax_7d", "tmin_7d"} |-> "mean"] @@ ("precip_7d" :> "sum")
                ELSE <<>>
        anom == IF "temp_anomaly" \in cols THEN ("temp_anomaly" :> "mean") ELSE <<>>
    IN  base @@ roll @@ anom

\* aggregate that averages every column (a faulty variant, for C7)
aggregate_all_mean(how, s) == series_mean(s)

aggregate(how, s) == IF how = "sum" THEN series_sum(s) ELSE series_mean(s)

MonthlyRow(rows, rules, p) ==
    LET grp  == SelectSeq(rows, LAMBDA r : to_period(r["date"]) = p)
        date == to_timestamp(p)
    IN  [c \in DOMAIN rules \cup {"date", "year", "month"} |->
            IF c = "date" THEN date
            ELSE IF c = "year" THEN date.y
            ELSE IF c = "month" THEN date.m
            ELSE aggregate(rules[c], Column(grp, c))]

aggregate_monthly(df) ==
    IF "date" \notin df.cols THEN KeyError
    ELSE LET rules   == agg_rules(df.cols)
             periods == SortedSeq({to_period(df.rows[i]["date"]) : i \in 1..Len(df.rows)})
         IN  IF ~(DOMAIN rules \subseteq df.cols) THEN KeyError
             ELSE Table(DOMAIN rules \cup {"date", "year", "month"},
                        [k \in 1..Len(periods) |-> MonthlyRow(df.rows, rules, periods[k])])

(***************************************************************************)
(* Series.quantile(q) with pandas' default linear interpolation: on the    *)
(* n non-NaN values in ascending order the quantile sits at the 0-based     *)
(* position q * (n - 1), between its two neighbours.  q is the rational     *)
(* qn / qd.                                                                 *)
(***************************************************************************)
FMul(x, y) == IF isna(x) \/ isna(y) THEN NaN ELSE Norm(x[1] * y[1], x[2] * y[2])

\* the non-NaN values of s in ascending order
Ascending(s) ==
    LET v == Valid(s)
        n == Len(v)
        below(x)  == Cardinality({i \in 1..n : FLt(v[i], x)})
        upto(x)   == Cardinality({i \in 1..n : FLe(v[i], x)})
    IN  [k \in 1..n |-> CHOOSE x \in {v[i] : i \in 1..n} : below(x) < k /\ k <= upto(x)]

quantile(s, qn, qd) ==
    LET v  == Ascending(s)
        n  == Len(v)
        lo == (qn * (n - 1)) \div qd
        g  == Norm((qn * (n - 1)) % qd, qd)
    IN  IF n = 0 THEN NaN
        ELSE IF g = F(0) THEN v[lo + 1]
        ELSE FAdd(v[lo + 1], FMul(g, FSub(v[lo + 2], v[lo + 1])))

(***************************************************************************)
(* WeatherTransformer.detect_extreme_events                                *)
(***************************************************************************)
\* the defaults of the temp_threshold and precip_threshold parameters
DefaultTempThreshold == 2
DefaultPrecipThreshold == 95

\* detect_extreme_events with >= and <= (a faulty variant, for C14): a row on
\* the threshold is flagged
detect_extreme_events_inclusive(df, temp_threshold, precip_threshold) ==
    IF "temp_anomaly" \notin df.cols /\ "tmean" \notin df.cols THEN KeyError
    ELSE IF "precipitation" \notin df.cols THEN KeyError
    ELSE LET by_anomaly == "temp_anomaly" \in df.cols
             tmean      == IF by_anomaly THEN <<>> ELSE Column(df.rows, "tmean")
             temp_95th  == quantile(tmean, 95, 100)
             temp_5th   == quantile(tmean, 5, 100)
             pv == quantile(Column(df.rows, "precipitation"), precip_threshold, 100)
             heat(r) == IF by_anomaly THEN FLe(F(temp_threshold), r["temp_anomaly"])
                        ELSE FLt(temp_95th, r["tmean"])
             cold(r) == IF by_anomaly THEN FLe(r["temp_anomaly"], F(-temp_threshold))
                        ELSE FLt(r["tmean"], temp_5th)
         IN  Table(df.cols \cup {"extreme_heat", "extreme_cold", "extreme_precip"},
                   [i \in 1..Len(df.rows) |->
                       LET r == df.rows[i]
                       IN  With(With(With(r, "extreme_heat", heat(r)),
                               "extreme_cold", cold(r)),
                               "extreme_precip", FLt(pv, r["precipitation"]))])

detect_extreme_events(df, temp_threshold, precip_threshold) ==
    IF "temp_anomaly" \notin df.cols /\ "tmean" \notin df.cols THEN KeyError
    ELSE IF "precipitation" \notin df.cols THEN KeyError
    ELSE LET by_anomaly == "temp_anomaly" \in df.cols
             tmean      == IF by_anomaly THEN <<>> ELSE Column(df.rows, "tmean")
             temp_95th  == quantile(tmean, 95, 100)
             temp_5th   == quantile(tmean, 5, 100)
             pv == quantile(Column(df.rows, "precipitation"), precip_threshold, 100)
             heat(r) == IF by_anomaly THEN FLt(F(temp_threshold), r["temp_anomaly"])
                        ELSE FLt(temp_95th, r["tmean"])
             cold(r) == IF by_anomaly THEN FLt(r["temp_anomaly"], F(-temp_threshold))
                        ELSE FLt(r["tmean"], temp_5th)
         IN  Table(df.cols \cup {"extreme_heat", "extreme_cold", "extreme_precip"},
                   [i \in 1..Len(df.rows) |->
                       LET r == df.rows[i]
                       IN  With(With(With(r, "extreme_heat", heat(r)),
                               "extreme_cold", cold(r)),
                               "extreme_precip", FLt(pv, r["precipitation"]))])

(***************************************************************************)
(* WeatherTransformer.calculate_statistics: a dict, nested as in the code. *)
(***************************************************************************)
\* Series.max() and Series.min(): NaN is skipped, an all-NaN series gives NaN
series_max(s) ==
    LET v == Valid(s)
    IN  IF Len(v) = 0 THEN NaN
        ELSE CHOOSE x \in {v[i] : i \in 1..Len(v)} : \A j \in 1..Len(v) : FLe(v[j], x)

series_min(s) ==
    LET v == Valid(s)
    IN  IF Len(v) = 0 THEN NaN
        ELSE CHOOSE x \in {v[i] : i \in 1..Len(v)} : \A j \in 1..Len(v) : FLe(x, v[j])

DigitChars == <<"0", "1", "2", "3", "4", "5", "6", "7", "8", "9">>

\* Timestamp.strftime('%Y-%m-%d'): ten characters, zero-padded
strftime(date) ==
    LET c(n) == DigitChars[n + 1]
    IN  <<c(date.y \div 1000), c((date.y \div 100) % 10), c((date.y \div 10) % 10),
          c(date.y % 10), "-", c(date.m \div 10), c(date.m % 10), "-",
          c(date.d \div 10), c(date.d % 10)>>

DateLe(a, b) ==
    \/ a.y < b.y
    \/ a.y = b.y /\ a.m < b.m
    \/ a.y = b.y /\ a.m = b.m /\ a.d <= b.d

date_min(s) == CHOOSE x \in {s[i] : i \in 1..Len(s)} : \A j \in 1..Len(s) : DateLe(x, s[j])
date_max(s) == CHOOSE x \in {s[i] : i \in 1..Len(s)} : \A j \in 1..Len(s) : DateLe(s[j], x)

StatCols == {"date", "tmean", "tmax", "tmin", "precipitation", "windspeed_max"}

\* the value of a call that raised instead of returning a dict
NoStats == [count |-> -1]

\* calculate_statistics counting the days with precipitation >= 0 (a faulty
\* variant, for C15)
calculate_statistics_dry_days(df) ==
    IF ~(StatCols \subseteq df.cols) THEN NoStats
    ELSE LET precip == Column(df.rows, "precipitation")
         IN  [count |-> Len(df.rows),
              date_range |-> [start |-> strftime(date_min(Column(df.rows, "date"))),
                              end   |-> strftime(date_max(Column(df.rows, "date")))],
              temperature |-> [mean_avg |-> series_mean(Column(df.rows, "tmean")),
                               mean_max |-> series_mean(Column(df.rows, "tmax")),
                               mean_min |-> series_mean(Column(df.rows, "tmin")),
                               absolute_max |-> series_max(Column(df.rows, "tmax")),
                               absolute_min |-> series_min(Column(df.rows, "tmin"))],
              precipitation |-> [total |-> series_sum(precip),
                                 mean_daily |-> series_mean(precip),
                                 max_daily |-> series_max(precip),
                                 days_with_rain |->
                                     Len(SelectSeq(precip, LAMBDA x : FLe(F(0), x)))],
              wind |-> [mean_max |-> series_mean(Column(df.rows, "windspeed_max")),
                        absolute_max |-> series_max(Column(df.rows, "windspeed_max"))]]

calculate_statistics(df) ==
    IF ~(StatCols \subseteq df.cols) THEN NoStats
    ELSE LET precip == Column(df.rows, "precipitation")
         IN  [count |-> Len(df.rows),
              date_range |-> [start |-> strftime(date_min(Column(df.rows, "date"))),
                              end   |-> strftime(date_max(Column(df.rows, "date")))],
              temperature |-> [mean_avg |-> series_mean(Column(df.rows, "tmean")),
                               mean_max |-> series_mean(Column(df.rows, "tmax")),
                               mean_min |-> series_mean(Column(df.rows, "tmin")),
                               absolute_max |-> series_max(Column(df.rows, "tmax")),
                               absolute_min |-> series_min(Column(df.rows, "tmin"))],
              precipitation |-> [total |-> series_sum(precip),
                                 mean_daily |-> series_mean(precip),
                                 max_daily |-> series_max(precip),
                                 days_with_rain |->
                                     Len(SelectSeq(precip, LAMBDA x : FLt(F(0), x)))],
              wind |-> [mean_max |-> series_mean(Column(df.rows, "windspeed_max")),
                        absolute_max |-> series_max(Column(df.rows, "windspeed_max"))]]

(***************************************************************************)
(* WeatherTransformer.process_data                                         *)
(***************************************************************************)
\* the default of add_rolling_averages' window parameter
DefaultWindow == 7

\* process_data with the monthly aggregation run ahead of the optional stages
\* (a faulty variant, for C13): rolling means and anomalies are then computed
\* from the monthly rows
process_data_aggregate_first(df, add_rolling, add_anomalies, monthly_agg) ==
    LET d1 == add_basic_features(df)
        d2 == IF monthly_agg /\ d1.err = "" THEN aggregate_monthly(d1) ELSE d1
        d3 == IF add_rolling /\ d2.err = ""
              THEN add_rolling_averages(d2, DefaultWindow) ELSE d2
    IN  IF add_anomalies /\ d3.err = "" THEN add_temperature_anomalies(d3) ELSE d3

\* an exception raised by a stage propagates: the later stages do not run
process_data(df, add_rolling, add_anomalies, monthly_agg) ==
    LET d1 == add_basic_features(df)
        d2 == IF add_rolling /\ d1.err = ""
              THEN add_rolling_averages(d1, DefaultWindow) ELSE d1
        d3 == IF add_anomalies /\ d2.err = "" THEN add_temperature_anomalies(d2) ELSE d2
    IN  IF monthly_agg /\ d3.err = "" THEN aggregate_monthly(d3) ELSE d3

(***************************************************************************)
(* Inputs: the daily tables a caller hands to the transformer.  Columns    *)
(* date, tmax, tmin, precipitation, windspeed_max as built by              *)
(* WeatherAPI.get_historical_weather (no NaN: fillna(0)).                  *)
(***************************************************************************)
RawCols == {"date", "tmax", "tmin", "precipitation", "windspeed_max"}

Reading(tmax, tmin, precip, wind) ==
    [tmax |-> F(tmax), tmin |-> F(tmin), precipitation |-> F(precip), windspeed_max |-> F(wind)]

Readings == {Reading(8, 0, 0, 3), Reading(-1, 1, 2, 0)}

Date(y, m, d) == [y |-> y, m |-> m, d |-> d]

\* days around a month boundary, in two years
DateSeq == <<Date(2023, 1, 30), Date(2023, 1, 31),
             Date(2024, 1, 30), Date(2024, 1, 31), Date(2024, 2, 1)>>

RawRow(date, rd) ==
    [c \in RawCols |-> IF c = "date" THEN date ELSE rd[c]]

NextDay(date) ==
    IF date.d < DaysInMonth(date.y, date.m) THEN Date(date.y, date.m, date.d + 1)
    ELSE IF date.m < 12 THEN Date(date.y, date.m + 1, 1)
    ELSE Date(date.y + 1, 1, 1)

\* the date k days after date
RECURSIVE AddDays(_, _)
AddDays(date, k) ==
    LET left == DaysInMonth(date.y, date.m) - date.d
    IN  IF k <= left THEN Date(date.y, date.m, date.d + k)
        ELSE AddDays(NextDay(Date(date.y, date.m, date.d + left)), k - left - 1)

DateRange(start, n) == [i \in 1..n |-> AddDays(start, i - 1)]

\* n consecutive days from start, every day with the same reading
ConstantTable(start, n, rd) ==
    LET ds == DateRange(start, n)
    IN  Table(RawCols, [i \in 1..n |-> RawRow(ds[i], rd)])

\* one day of every month of year y
YearTable(y, rd) ==
    Table(RawCols, [m \in 1..12 |-> RawRow(Date(y, m, 15), rd)])

\* the scenarios of spec.md section 8: 14 days of tmax 10 / tmin 0, and a
\* 30-day month with precipitation 1.0 every day; and a table that covers
\* the twelve months of a year
Scenarios == {ConstantTable(Date(2023, 3, 1), 14, Reading(10, 0, 0, 5)),
              ConstantTable(Date(2023, 4, 1), 30, Reading(10, 0, 1, 5)),
              YearTable(2023, Reading(10, 0, 1, 5))}

NoThresholds == [temp |-> 0, precip |-> 0]

NoFlags == [rolling |-> FALSE, anomaly |-> FALSE, monthly |-> FALSE]

\* up to MaxRows days drawn from DateSeq in date order, any reading each
SmallTables ==
    UNION {
        LET idx == SortedSeq(S)
        IN  {Table(RawCols, [i \in 1..Len(idx) |-> RawRow(DateSeq[idx[i]], f[i])]) :
                f \in [1..Len(idx) -> Readings]}
        : S \in {T \in SUBSET (1..Len(DateSeq)) : Cardinality(T) \in 1..MaxRows}}

Windows == {3, DefaultWindow}

\* the columns a stage reads: the caller may hand it a table lacking one
Prereq(name) ==
    IF name = "rolling" THEN {"tmean", "precipitation"}
    ELSE IF name = "anomalies" THEN {"tmean", "month"}
    ELSE IF name = "monthly" THEN {"tmean_7d", "tmax_7d"}
    ELSE {}

DropColumn(df, c) ==
    Table(df.cols \ {c}, [i \in 1..Len(df.rows) |-> [k \in df.cols \ {c} |-> df.rows[i][k]]])

\* what the caller may hand to stage `name`: the table it holds, or that
\* table without one of the columns the stage reads
Args(name, df) == {df} \cup {DropColumn(df, c) : c \in Prereq(name) \cap df.cols}

(***************************************************************************)
(* The dashboard (src/app.py main): every user interaction reruns main().  *)
(* Dates are ordinals counted from 1940-01-01, the first day ERA5 serves.  *)
(* A loaded table is represented by the city and the options it was        *)
(* computed with.                                                          *)
(***************************************************************************)
\* pd.to_datetime('1940-01-01') in validate_date_range
MinDate == 0

\* date.today(), the max_value of both date widgets
Today == 2

Dates == MinDate..Today

CityNames == {"London", "Paris"}

\* what api.search_cities may return: [] (no match, or any error) or the
\* list under 'results'
SearchResults ==
    {<<>>} \cup {<<c>> : c \in CityNames}
           \cup {<<c, d>> : <<c, d>> \in {p \in CityNames \X CityNames : p[1] # p[2]}}

\* a key of st.session_state that is not set, and one that holds v
Absent == [present |-> FALSE]
Stored(v) == [present |-> TRUE, value |-> v]
NoFetch == [called |-> FALSE, start |-> MinDate, end |-> MinDate]

NoSession == [weather_df |-> Absent, selected_city |-> Absent, analysis_options |-> Absent]

(***************************************************************************)
(* pd.to_datetime on one text.  A text is a tuple of one-character         *)
(* strings.  An ISO date gives a Timestamp, an empty text gives NaT (as     *)
(* None does), any other text here raises.  A Timestamp is held as its      *)
(* ordinal, the days since 1940-01-01.                                      *)
(***************************************************************************)
digit(c) == (CHOOSE k \in 1..10 : DigitChars[k] = c) - 1

LeapsBefore(y) == (y - 1) \div 4 - (y - 1) \div 100 + (y - 1) \div 400

toordinal(date) ==
    365 * (date.y - 1940) + LeapsBefore(date.y) - LeapsBefore(1940) + dayofyear(date) - 1

IsIsoText(t) ==
    /\ Len(t) = 10
    /\ t[5] = "-" /\ t[8] = "-"
    /\ \A k \in {1, 2, 3, 4, 6, 7, 9, 10} : \E j \in 1..10 : DigitChars[j] = t[k]

to_datetime(t) ==
    IF t = <<>> THEN [kind |-> "NaT", ordinal |-> 0]
    ELSE IF ~IsIsoText(t) THEN [kind |-> "raise", ordinal |-> 0]
    ELSE LET y == 1000 * digit(t[1]) + 100 * digit(t[2]) + 10 * digit(t[3]) + digit(t[4])
             m == 10 * digit(t[6]) + digit(t[7])
             d == 10 * digit(t[9]) + digit(t[10])
         IN  IF m \in 1..12 /\ d \in 1..DaysInMonth(y, m)
             THEN [kind |-> "Timestamp", ordinal |-> toordinal([y |-> y, m |-> m, d |-> d])]
             ELSE [kind |-> "raise", ordinal |-> 0]

\* the range length above which validate_date_range warns
LargeRange == 3650

(***************************************************************************)
(* WeatherAPI.validate_date_range.  Every comparison with NaT is False,     *)
(* end - start is NaT when either is, and NaT.days is nan.                  *)
(***************************************************************************)
validate_date_range(start_text, end_text) ==
    LET start == to_datetime(start_text)
        end   == to_datetime(end_text)
        both  == start.kind = "Timestamp" /\ end.kind = "Timestamp"
    IN  IF start.kind = "raise" \/ end.kind = "raise"
        THEN [value |-> FALSE, shown |-> "error"]
        ELSE IF both /\ start.ordinal >= end.ordinal
        THEN [value |-> FALSE, shown |-> "error"]
        ELSE IF start.kind = "Timestamp" /\ start.ordinal < MinDate
        THEN [value |-> FALSE, shown |-> "error"]
        ELSE IF both /\ end.ordinal - start.ordinal > LargeRange
        THEN [value |-> TRUE, shown |-> "warning"]
        ELSE [value |-> TRUE, shown |-> "none"]

\* the texts a caller hands to validate_date_range: ISO dates around
\* 1940-01-01 and ten years apart, a day that is not in the calendar, a text
\* that is no date, and the empty text
TextDates == {Date(1900, 1, 1), Date(1939, 12, 31), Date(1940, 1, 1), Date(1940, 1, 2),
              Date(2013, 1, 1), Date(2022, 12, 30), Date(2023, 1, 1), Date(2023, 12, 31)}

Texts == {strftime(d) : d \in TextDates}
         \cup {<<"2", "0", "2", "3", "-", "0", "2", "-", "3", "0">>, <<"s", "o", "o", "n">>, <<>>}

NoValidation == [start |-> <<>>, end |-> <<>>, done |-> FALSE, value |-> FALSE, shown |-> "none"]

(***************************************************************************)
(* The HTTP exchange of a WeatherAPI method.  A response is what            *)
(* requests.get, raise_for_status and response.json() together yield:      *)
(* status "timeout", "connection" or "http_error" when one of the first two *)
(* raises, else "ok" with a body that is no JSON, JSON null, or a JSON      *)
(* object with or without the key the method looks for.  A column of the    *)
(* daily block is absent, JSON null, or a list whose null entries are NaN.  *)
(***************************************************************************)
MaxDays == 2

Fields == {"temperature_2m_max", "temperature_2m_min", "precipitation_sum", "windspeed_10m_max"}

\* data['daily'][field] feeds column FieldColumn[field]
FieldColumn ==
    [temperature_2m_max |-> "tmax", temperature_2m_min |-> "tmin",
     precipitation_sum |-> "precipitation", windspeed_10m_max |-> "windspeed_max"]

AbsentKey == [present |-> FALSE, null |-> FALSE, values |-> <<>>]
JsonNull  == [present |-> TRUE, null |-> TRUE, values |-> <<>>]
JsonList(v) == [present |-> TRUE, null |-> FALSE, values |-> v]

\* the values a field may carry for n returned days: absent, null, n values,
\* or a list that is one value short
FieldValues(n) ==
    {AbsentKey, JsonNull}
        \cup {JsonList(v) : v \in [1..n -> {F(5), NaN}]}
        \cup (IF n > 0 THEN {JsonList([i \in 1..(n - 1) |-> F(5)])} ELSE {})

Daily(t, a, b, c, d) ==
    [time |-> t, temperature_2m_max |-> a, temperature_2m_min |-> b,
     precipitation_sum |-> c, windspeed_10m_max |-> d]

\* data['daily']['time'] for n returned days: absent, or the n dates
TimeValues(n) == {AbsentKey, JsonList(DateRange(Date(2023, 1, 31), n))}

NoDaily ==
    [time |-> AbsentKey, temperature_2m_max |-> AbsentKey, temperature_2m_min |-> AbsentKey,
     precipitation_sum |-> AbsentKey, windspeed_10m_max |-> AbsentKey]

Response(status, body, has_key, results, daily) ==
    [status |-> status, body |-> body, has_key |-> has_key, results |-> results, daily |-> daily]

NoResponse == Response("none", "none", FALSE, <<>>, NoDaily)

Failures ==
    {Response(st, "none", FALSE, <<>>, NoDaily) : st \in {"timeout", "connection", "http_error"}}
        \cup {Response("ok", b, FALSE, <<>>, NoDaily) : b \in {"not_json", "null", "object"}}

Value(kind, value) == [kind |-> kind, value |-> value]

NoValue == Value("none", <<>>)

\* the Python value None
None == Value("None", <<>>)

(***************************************************************************)
(* WeatherAPI.search_cities, from the response on                          *)
(***************************************************************************)
search_cities(resp) ==
    IF resp.status # "ok" \/ resp.body = "not_json" THEN Value("list", <<>>)
    ELSE IF resp.body = "null" THEN Value("list", <<>>)
    ELSE IF resp.has_key THEN Value("list", resp.results)
    ELSE Value("list", <<>>)

(***************************************************************************)
(* WeatherAPI.get_historical_weather, from the response on.  pd.DataFrame   *)
(* raises KeyError on an absent field and ValueError on lists of unequal    *)
(* length, and repeats a null field on every row; fillna(0) then replaces   *)
(* every null.                                                              *)
(***************************************************************************)
fillna(x, v) == IF isna(x) THEN v ELSE x

DataFrame(daily) ==
    LET time == daily["time"].values
        n    == Len(time)
        cell(f, i) == IF daily[f].null THEN NaN ELSE daily[f].values[i]
    IN  Table(RawCols,
              [i \in 1..n |->
                  [c \in RawCols |->
                      IF c = "date" THEN time[i]
                      ELSE cell(CHOOSE f \in Fields : FieldColumn[f] = c, i)]])

\* get_historical_weather building the table from the fields that are there
\* (a faulty variant, for C18): an absent field gives a table without its column
get_historical_weather_partial(resp) ==
    IF resp.status # "ok" \/ resp.body = "not_json" THEN None
    ELSE IF resp.body = "null" THEN None
    ELSE IF ~resp.has_key THEN None
    ELSE IF ~resp.daily["time"].present THEN None
    ELSE IF \E f \in Fields :
               /\ resp.daily[f].present /\ ~resp.daily[f].null
               /\ Len(resp.daily[f].values) # Len(resp.daily["time"].values)
         THEN None
    ELSE LET there == {"date"} \cup {FieldColumn[f] : f \in {g \in Fields : resp.daily[g].present}}
             df    == DataFrame(resp.daily)
         IN  Value("table",
                   Table(there,
                         [i \in 1..Len(df.rows) |->
                             [c \in there |->
                                 IF c = "date" THEN df.rows[i][c]
                                 ELSE fillna(df.rows[i][c], F(0))]]))

get_historical_weather(resp) ==
    IF resp.status # "ok" \/ resp.body = "not_json" THEN None
    ELSE IF resp.body = "null" THEN None
    ELSE IF ~resp.has_key THEN None
    ELSE IF \E f \in Fields \cup {"time"} : ~resp.daily[f].present THEN None
    ELSE IF \E f \in Fields :
               ~resp.daily[f].null /\ Len(resp.daily[f].values) # Len(resp.daily["time"].values)
         THEN None
    ELSE LET df == DataFrame(resp.daily)
         IN  Value("table",
                   Table(df.cols,
                         [i \in 1..Len(df.rows) |->
                             [c \in df.cols |->
                                 IF c = "date" THEN df.rows[i][c]
                                 ELSE fillna(df.rows[i][c], F(0))]]))

NoRequest == [method |-> "none", pending |-> FALSE, response |-> NoResponse]

ServiceIdle ==
    /\ validation = NoValidation
    /\ request = NoRequest
    /\ sent = 0
    /\ returned = NoValue

AppIdle ==
    /\ cities = <<>>
    /\ selected = 0
    /\ start_date = MinDate
    /\ end_date = MinDate
    /\ options = NoFlags
    /\ last_fetch = NoFetch
    /\ session = NoSession

TransformerIdle ==
    /\ inp = Table({}, <<>>)
    /\ out = Table({}, <<>>)
    /\ op = "none"
    /\ window = 0
    /\ flags = NoFlags
    /\ calls = 0
    /\ thresholds = NoThresholds
    /\ stats = NoStats
    /\ inp_after = inp
    /\ fresh = TRUE

\* first run of main(): no session state, default widget values
AppInit ==
    /\ cities = <<>>
    /\ selected = 0
    /\ start_date = Today - 1
    /\ end_date = Today
    /\ options = [rolling |-> TRUE, anomaly |-> FALSE, monthly |-> FALSE]
    /\ last_fetch = NoFetch
    /\ session = NoSession
    /\ TransformerIdle
    /\ ServiceIdle

\* "Search Cities" with a non-empty city name
Search ==
    \E result \in SearchResults :
        /\ cities' = result
        /\ selected' \in (IF result = <<>> THEN {0} ELSE 1..Len(result))
        /\ UNCHANGED <<start_date, end_date, options, last_fetch, session, tvars, svars>>

SelectCity ==
    \E i \in 1..Len(cities) :
        /\ selected' = i
        /\ UNCHANGED <<cities, start_date, end_date, options, last_fetch, session, tvars, svars>>

SetStartDate ==
    \E d \in Dates :
        /\ start_date' = d
        /\ UNCHANGED <<cities, selected, end_date, options, last_fetch, session, tvars, svars>>

SetEndDate ==
    \E d \in Dates :
        /\ end_date' = d
        /\ UNCHANGED <<cities, selected, start_date, options, last_fetch, session, tvars, svars>>

Toggle ==
    \E k \in {"rolling", "anomaly", "monthly"} :
        /\ options' = [options EXCEPT ![k] = ~@]
        /\ UNCHANGED <<cities, selected, start_date, end_date, last_fetch, session, tvars, svars>>

\* Fetch without the assignment to st.session_state['analysis_options'] (a
\* faulty variant, for C20)
Fetch_table_and_city_only ==
    /\ selected # 0
    /\ \E answer \in {"table", "None"} :
          /\ last_fetch' = [called |-> TRUE, start |-> start_date, end |-> end_date]
          /\ session' = IF answer = "None" THEN session
                        ELSE [session EXCEPT
                                 !.weather_df = Stored([city |-> cities[selected], options |-> options]),
                                 !.selected_city = Stored(cities[selected])]
    /\ UNCHANGED <<cities, selected, start_date, end_date, options, tvars, svars>>

\* "Fetch Weather Data" (enabled only with a selected city); the API answers
\* with a table or with None
Fetch ==
    /\ selected # 0
    /\ \E answer \in {"table", "None"} :
          /\ last_fetch' = [called |-> TRUE, start |-> start_date, end |-> end_date]
          /\ session' = IF answer = "None" THEN session
                        ELSE [weather_df |-> Stored([city |-> cities[selected], options |-> options]),
                              selected_city |-> Stored(cities[selected]),
                              analysis_options |-> Stored(options)]
    /\ UNCHANGED <<cities, selected, start_date, end_date, options, tvars, svars>>

AppNext == Search \/ SelectCity \/ SetStartDate \/ SetEndDate \/ Toggle \/ Fetch

AppSpec == AppInit /\ [][AppNext]_vars

Init ==
    /\ out \in SmallTables \cup Scenarios
    /\ inp = out
    /\ op = "load"
    /\ window = 0
    /\ flags = NoFlags
    /\ calls = 0
    /\ thresholds = NoThresholds
    /\ stats = NoStats
    /\ inp_after = inp
    /\ fresh = TRUE
    /\ AppIdle
    /\ ServiceIdle

\* one call of a transformer method on the table the caller holds
Called(name, arg, result) ==
    /\ inp' = arg
    /\ out' = result
    /\ op' = name
    /\ calls' = calls + 1
    /\ UNCHANGED <<avars, svars>>

\* df_copy = df (a faulty variant, for C16): no copy is taken, df_copy names
\* the caller's object
copy_alias(df) == [object |-> "given", table |-> df]

\* df.copy(): a new object with the content of df
copy(df) == [object |-> "new", table |-> df]

\* df_copy['year_month'] = ... in aggregate_monthly
year_month_added(df) ==
    IF "date" \notin df.cols THEN df
    ELSE Table(df.cols \cup {"year_month"},
               [i \in 1..Len(df.rows) |->
                   With(df.rows[i], "year_month", to_period(df.rows[i]["date"]))])

\* the table df_copy holds when a method that assigns columns to it returns
\* `result` (a method that raised before its first assignment wrote nothing)
Assigned(arg, result) == IF result.err = "" THEN result ELSE arg

\* what a call that starts with df_copy = df.copy() leaves behind: all its
\* column assignments go to the object df_copy names, `final` being that
\* object's content at the end; returns_df_copy tells whether the method
\* returns df_copy itself rather than a frame built by groupby
Frame(given, final, returns_df_copy) ==
    LET df_copy == copy(given)
    IN  /\ inp_after' = IF df_copy.object = "given" THEN final ELSE given
        /\ fresh' = (df_copy.object = "new" \/ ~returns_df_copy)

CanCall == out.err = "" /\ calls < MaxCalls

Basic ==
    /\ CanCall
    /\ \E arg \in Args("basic", out) :
          LET result == add_basic_features(arg)
          IN  Called("basic", arg, result) /\ Frame(arg, Assigned(arg, result), TRUE)
    /\ stats' = NoStats
    /\ UNCHANGED <<window, flags, thresholds>>

Rolling ==
    /\ CanCall
    /\ \E arg \in Args("rolling", out), w \in Windows :
          LET result == add_rolling_averages(arg, w)
          IN  /\ Called("rolling", arg, result)
              /\ Frame(arg, Assigned(arg, result), TRUE)
              /\ window' = w
    /\ stats' = NoStats
    /\ UNCHANGED <<flags, thresholds>>

Anomalies ==
    /\ CanCall
    /\ \E arg \in Args("anomalies", out) :
          LET result == add_temperature_anomalies(arg)
          IN  Called("anomalies", arg, result) /\ Frame(arg, Assigned(arg, result), TRUE)
    /\ stats' = NoStats
    /\ UNCHANGED <<window, flags, thresholds>>

\* main() hands process_data the table get_historical_weather returned;
\* processed_df = df.copy() is followed by the stages' own copies
ProcessData ==
    /\ CanCall
    /\ op = "load"
    /\ \E r \in BOOLEAN, a \in BOOLEAN, m \in BOOLEAN :
          LET result == process_data(out, r, a, m)
              daily  == process_data(out, r, a, FALSE)
          IN  /\ Called("process", out, result)
              /\ Frame(out, IF m THEN year_month_added(daily) ELSE result, ~m)
              /\ flags' = [rolling |-> r, anomaly |-> a, monthly |-> m]
    /\ window' = DefaultWindow
    /\ stats' = NoStats
    /\ UNCHANGED thresholds

Monthly ==
    /\ CanCall
    /\ \E arg \in Args("monthly", out) :
          /\ Called("monthly", arg, aggregate_monthly(arg))
          /\ Frame(arg, year_month_added(arg), FALSE)
    /\ stats' = NoStats
    /\ UNCHANGED <<window, flags, thresholds>>

TempThresholds == {DefaultTempThreshold, 3}

Detect ==
    /\ CanCall
    /\ \E arg \in Args("detect", out), t \in TempThresholds :
          LET result == detect_extreme_events(arg, t, DefaultPrecipThreshold)
          IN  /\ Called("detect", arg, result)
              /\ Frame(arg, Assigned(arg, result), TRUE)
              /\ thresholds' = [temp |-> t, precip |-> DefaultPrecipThreshold]
    /\ stats' = NoStats
    /\ UNCHANGED <<window, flags>>

\* calculate_statistics takes no copy and assigns nothing: it reads df and
\* returns a dict; the caller goes on holding the table
Statistics ==
    /\ CanCall
    /\ LET result == calculate_statistics(out)
       IN  /\ Called("statistics", out, IF result = NoStats THEN KeyError ELSE out)
           /\ stats' = result
    /\ inp_after' = out
    /\ fresh' = TRUE
    /\ UNCHANGED <<window, flags, thresholds>>

Next == Basic \/ Rolling \/ Anomalies \/ Monthly \/ ProcessData

Spec == Init /\ [][Next]_vars

\* the seven public methods, on the same tables, in shorter call sequences
AnalysisNext ==
    \/ calls < AnalysisCalls /\ Basic
    \/ calls < AnalysisCalls /\ Rolling
    \/ calls < AnalysisCalls /\ Anomalies
    \/ calls < AnalysisCalls /\ Monthly
    \/ calls < AnalysisCalls /\ ProcessData
    \/ calls < AnalysisCalls /\ Detect
    \/ calls < AnalysisCalls /\ Statistics

AnalysisSpec == Init /\ [][AnalysisNext]_vars

(***************************************************************************)
(* Calls of validate_date_range on arbitrary pairs of texts.               *)
(***************************************************************************)
ValidateInit ==
    /\ validation \in {[NoValidation EXCEPT !.start = s, !.end = e] : s \in Texts, e \in Texts}
    /\ request = NoRequest
    /\ sent = 0
    /\ returned = NoValue
    /\ TransformerIdle
    /\ AppIdle

Validate ==
    /\ ~validation.done
    /\ LET r == validate_date_range(validation.start, validation.end)
       IN  validation' = [validation EXCEPT !.done = TRUE, !.value = r.value, !.shown = r.shown]
    /\ UNCHANGED <<tvars, avars, request, sent, returned>>

ValidateNext == Validate

ValidateSpec == ValidateInit /\ [][ValidateNext]_vars

(***************************************************************************)
(* The caller invokes a WeatherAPI method (main() does on "Search Cities"  *)
(* and on "Fetch Weather Data"); the method issues its request, the service *)
(* answers or fails, and the method returns.                                *)
(***************************************************************************)
ApiInit ==
    /\ request = NoRequest
    /\ sent = 0
    /\ returned = NoValue
    /\ validation = NoValidation
    /\ TransformerIdle
    /\ AppIdle

\* api.search_cities(city_input): requests.get(self.geocoding_url, ...)
SearchCities ==
    /\ ~request.pending
    /\ request' = [method |-> "search", pending |-> TRUE, response |-> NoResponse]
    /\ sent' = 1
    /\ returned' = NoValue
    /\ UNCHANGED <<tvars, avars, validation>>

\* api.get_historical_weather(...): requests.get(self.historical_url, ...)
GetHistoricalWeather ==
    /\ ~request.pending
    /\ request' = [method |-> "weather", pending |-> TRUE, response |-> NoResponse]
    /\ sent' = 1
    /\ returned' = NoValue
    /\ UNCHANGED <<tvars, avars, validation>>

Failed(resp) == resp.status # "ok" \/ resp.body # "object" \/ ~resp.has_key

\* the method returns what it makes of the response
Return(resp) ==
    /\ request' = [request EXCEPT !.pending = FALSE, !.response = resp]
    /\ returned' = IF request.method = "search" THEN search_cities(resp)
                   ELSE get_historical_weather(resp)
    /\ UNCHANGED sent

\* Return with one more requests.get after a failure (a faulty variant, for
\* C19)
Answer_retry(resp) ==
    IF Failed(resp) /\ sent < 2
    THEN /\ request' = [request EXCEPT !.response = resp]
         /\ sent' = sent + 1
         /\ UNCHANGED returned
    ELSE Return(resp)

\* how the method goes on from the response, or from the exception raised in
\* its place: it returns, and makes no other request
Answer(resp) == Return(resp)

\* the service fails, or answers with a list of cities resp. a daily block
Respond ==
    /\ request.pending
    /\ \/ \E resp \in Failures : Answer(resp)
       \/ /\ request.method = "search"
          /\ \E r \in SearchResults : Answer(Response("ok", "object", TRUE, r, NoDaily))
       \/ /\ request.method = "weather"
          /\ \E n \in 0..MaxDays :
                \E a \in FieldValues(n), b \in FieldValues(n), c \in FieldValues(n),
                   d \in FieldValues(n), t \in TimeValues(n) :
                    Answer(Response("ok", "object", TRUE, <<>>, Daily(t, a, b, c, d)))
    /\ UNCHANGED <<tvars, avars, validation>>

ApiNext == SearchCities \/ GetHistoricalWeather \/ Respond

ApiSpec == ApiInit /\ [][ApiNext]_vars

(***************************************************************************)
(* Properties.                                                             *)
(***************************************************************************)
Returned(name) == op = name /\ out.err = ""

\* the sum of f[i] over the set I of integers, and the mean over I
RECURSIVE SumOver(_, _)
SumOver(I, f) ==
    IF I = {} THEN F(0)
    ELSE LET lo == CHOOSE i \in I : \A j \in I : i <= j
             hi == CHOOSE i \in I : \A j \in I : i >= j
             mid == (lo + hi) \div 2
         IN  IF lo = hi THEN f[lo]
             ELSE FAdd(SumOver({i \in I : i <= mid}, f), SumOver({i \in I : i > mid}, f))

MeanOver(I, f) == FDivInt(SumOver(I, f), Cardinality(I))

RollingCols == {"tmean_7d", "tmax_7d", "tmin_7d", "precip_7d"}

\* C1 (as amended): add_temperature_anomalies assigns anomaly_category by
\* right-closed intervals on temp_anomaly a: Very Cold when a <= -2, Cold when
\* -2 < a <= -1, Normal when -1 < a <= 1, Warm when 1 < a <= 2, Very Warm when
\* a > 2; a row with a exactly -2 is Very Cold, -1 Cold, 1 Normal, 2 Warm.
C1_RightClosedBins ==
    Returned("anomalies") =>
        \A i \in 1..Len(out.rows) :
            LET a == out.rows[i]["temp_anomaly"]
                c == out.rows[i]["anomaly_category"]
            IN  /\ (c = "Very Cold") = FLe(a, F(-2))
                /\ (c = "Cold") = (FLt(F(-2), a) /\ FLe(a, F(-1)))
                /\ (c = "Normal") = (FLt(F(-1), a) /\ FLe(a, F(1)))
                /\ (c = "Warm") = (FLt(F(1), a) /\ FLe(a, F(2)))
                /\ (c = "Very Warm") = FLt(F(2), a)

\* C1 witness: a table with one row exactly at -2 and one exactly at 2
C1_Witness ==
    /\ Returned("anomalies")
    /\ \E i, j \in 1..Len(out.rows) :
          /\ out.rows[i]["temp_anomaly"] = F(-2) /\ out.rows[i]["anomaly_category"] = "Very Cold"
          /\ out.rows[j]["temp_anomaly"] = F(2) /\ out.rows[j]["anomaly_category"] = "Warm"

\* C1 as stated: left-closed intervals, Very Cold when a < -2, Cold when
\* -2 <= a < -1, Normal when -1 <= a < 1, Warm when 1 <= a < 2, Very Warm
\* when a >= 2
C1_LeftClosedBins ==
    Returned("anomalies") =>
        \A i \in 1..Len(out.rows) :
            LET a == out.rows[i]["temp_anomaly"]
                c == out.rows[i]["anomaly_category"]
            IN  /\ (c = "Very Cold") = FLt(a, F(-2))
                /\ (c = "Cold") = (FLe(F(-2), a) /\ FLt(a, F(-1)))
                /\ (c = "Normal") = (FLe(F(-1), a) /\ FLt(a, F(1)))
                /\ (c = "Warm") = (FLe(F(1), a) /\ FLt(a, F(2)))
                /\ (c = "Very Warm") = FLe(F(2), a)

\* what a rolling column holds at row i of a table of n rows when the window
\* is odd: the source over rows i-h .. i+h, h = window \div 2
Centered(rows, src, i, h) == [j \in (i - h)..(i + h) |-> rows[j][src]]

RollingSource(c) ==
    IF c = "tmean_7d" THEN "tmean" ELSE IF c = "tmax_7d" THEN "tmax"
    ELSE IF c = "tmin_7d" THEN "tmin" ELSE "precipitation"

\* C2: for odd window and n > window rows, each rolling column is absent at
\* 0-based row i iff i < window \div 2 or i >= n - window \div 2, and elsewhere
\* is the mean (precip_7d: the sum) of its source over rows i-h .. i+h; 14 days
\* of tmax 10 and tmin 0 give tmean_7d = 5.0 at rows 3..10 and absent at the
\* three rows of either end.
C2_CenteredWindow ==
    (Returned("rolling") /\ window % 2 = 1 /\ Len(out.rows) > window) =>
        LET n == Len(out.rows)
            h == window \div 2
        IN  /\ \A c \in RollingCols : \A i \in 1..n :
                  /\ isna(out.rows[i][c]) = ((i - 1) < h \/ (i - 1) >= n - h)
                  /\ ~isna(out.rows[i][c]) =>
                        out.rows[i][c] =
                            IF c = "precip_7d"
                            THEN SumOver((i - h)..(i + h), Centered(out.rows, RollingSource(c), i, h))
                            ELSE MeanOver((i - h)..(i + h), Centered(out.rows, RollingSource(c), i, h))
            /\ (/\ n = 14 /\ window = 7
                /\ \A i \in 1..n : out.rows[i]["tmax"] = F(10) /\ out.rows[i]["tmin"] = F(0))
               => \A i \in 1..n :
                     out.rows[i]["tmean_7d"] = IF (i - 1) \in 3..10 THEN F(5) ELSE NaN

\* C2 witness: the 14-day scenario smoothed with window 7
C2_Witness ==
    /\ Returned("rolling")
    /\ window = 7 /\ Len(out.rows) = 14
    /\ out.rows[4]["tmean_7d"] = F(5) /\ isna(out.rows[3]["tmean_7d"])
    /\ isna(out.rows[12]["tmean_7d"]) /\ out.rows[11]["tmean_7d"] = F(5)

\* C3 (as amended): on a table with fewer rows than window every entry of
\* every rolling column is absent; with exactly window rows (window odd) the
\* centre row has a full window and is present, all other rows are absent.
C3_ShortTable ==
    Returned("rolling") =>
        LET n == Len(out.rows)
        IN  /\ n < window => \A c \in RollingCols : \A i \in 1..n : isna(out.rows[i][c])
            /\ (n = window /\ window % 2 = 1) =>
                  \A c \in RollingCols : \A i \in 1..n :
                      isna(out.rows[i][c]) = (i # (window \div 2) + 1)

\* C3 witness: two rows smoothed with window 3
C3_Witness ==
    /\ Returned("rolling")
    /\ Len(out.rows) = 2 /\ window = 3
    /\ \A c \in RollingCols : \A i \in 1..2 : isna(out.rows[i][c])

\* C3 as stated: row count <= window (equal included) makes every entry of
\* every rolling column absent
C3_AllAbsentUpToWindow ==
    (Returned("rolling") /\ Len(out.rows) <= window) =>
        \A c \in RollingCols : \A i \in 1..Len(out.rows) : isna(out.rows[i][c])

\* the columns a stage needs, as the claim lists them
Prerequisites(name, df) ==
    IF name = "anomalies" THEN {"tmean", "month"}
    ELSE IF name = "rolling" THEN {"tmean", "tmax", "tmin", "precipitation"}
    ELSE DOMAIN agg_rules(df.cols)

\* C4 as stated: a stage handed a table that lacks one of its prerequisite
\* columns skips the feature and returns a table instead of raising
C4_SkipsMissingPrerequisite ==
    (/\ op \in {"anomalies", "rolling", "monthly"}
     /\ ~(Prerequisites(op, inp) \subseteq inp.cols))
    => out.err = ""

\* C5 as stated: get_historical_weather is called only with start strictly
\* before end and start not earlier than 1940-01-01
C5_FetchOnlyValidRange ==
    last_fetch.called => (last_fetch.start < last_fetch.end /\ last_fetch.start >= MinDate)

YearMonth(date) == <<date.y, date.m>>

Earlier(p, q) == p[1] < q[1] \/ (p[1] = q[1] /\ p[2] < q[2])

\* C6: aggregate_monthly returns one row per distinct (year, month) of the
\* input dates, in chronological order, each dated the first day of its month
\* with year and month re-derived from that date
C6_OneRowPerMonth ==
    Returned("monthly") =>
        LET pairs == {YearMonth(inp.rows[i]["date"]) : i \in 1..Len(inp.rows)}
            n     == Len(out.rows)
        IN  /\ n = Cardinality(pairs)
            /\ {YearMonth(out.rows[k]["date"]) : k \in 1..n} = pairs
            /\ \A k \in 1..n :
                  /\ out.rows[k]["date"].d = 1
                  /\ out.rows[k]["year"] = out.rows[k]["date"].y
                  /\ out.rows[k]["month"] = out.rows[k]["date"].m
            /\ \A k \in 1..(n - 1) :
                  Earlier(YearMonth(out.rows[k]["date"]), YearMonth(out.rows[k + 1]["date"]))
            /\ (\A m \in 1..12 : <<2023, m>> \in pairs) /\ (\A p \in pairs : p[1] = 2023)
                  => n = 12

\* C6 witness: four daily rows in January 2023, January 2024 and February
\* 2024 aggregated to three rows
C6_Witness ==
    /\ Returned("monthly")
    /\ Len(inp.rows) = 4 /\ Len(out.rows) = 3
    /\ out.rows[1]["date"] = Date(2023, 1, 1)
    /\ out.rows[3]["date"] = Date(2024, 2, 1)

SumCols == {"precipitation", "precip_7d"}

\* the rows of df dated in the month of date whose column c is present
InMonth(df, date, c) ==
    {i \in 1..Len(df.rows) : /\ YearMonth(df.rows[i]["date"]) = YearMonth(date)
                             /\ ~isna(df.rows[i][c])}

\* C7: in every row of aggregate_monthly, precipitation and precip_7d are the
\* sum, and every other aggregated column the arithmetic mean, of the daily
\* values of that (year, month) (values that are absent do not count); 30
\* days of precipitation 1.0 give 30.0
C7_MonthlyReductions ==
    Returned("monthly") =>
        /\ {"tmax", "tmin", "tmean", "windspeed_max", "temp_range", "precipitation"}
              \subseteq out.cols
        /\ \A k \in 1..Len(out.rows) : \A c \in out.cols \ {"date", "year", "month"} :
              LET I == InMonth(inp, out.rows[k]["date"], c)
                  f == [i \in I |-> inp.rows[i][c]]
              IN  out.rows[k][c] = IF c \in SumCols THEN SumOver(I, f) ELSE MeanOver(I, f)
        /\ (/\ Len(inp.rows) = 30
            /\ \A i \in 1..30 : /\ inp.rows[i]["precipitation"] = F(1)
                                /\ YearMonth(inp.rows[i]["date"]) = <<2023, 4>>)
           => (Len(out.rows) = 1 /\ out.rows[1]["precipitation"] = F(30))

\* C7 witness: the 30-day scenario with rolling and anomaly columns, summed
\* and averaged over April 2023
C7_Witness ==
    /\ Returned("monthly")
    /\ Len(inp.rows) = 30 /\ Len(out.rows) = 1
    /\ {"precip_7d", "tmean_7d", "temp_anomaly"} \subseteq out.cols
    /\ out.rows[1]["precipitation"] = F(30)
    /\ out.rows[1]["tmean"] = F(5)

\* C8 as stated: each rolling column, and temp_anomaly, is in the output of
\* aggregate_monthly if and only if it was in the input
C8_ConditionalSchema ==
    Returned("monthly") =>
        \A c \in RollingCols \cup {"temp_anomaly"} : (c \in out.cols) = (c \in inp.cols)

\* C9: monthly_climate of every row is the arithmetic mean of tmean over all
\* rows of the table with the row's month number, whatever their year, and
\* temp_anomaly = tmean - monthly_climate
C9_PooledClimate ==
    Returned("anomalies") =>
        \A i \in 1..Len(out.rows) :
            LET I  == {j \in 1..Len(inp.rows) : inp.rows[j]["month"] = inp.rows[i]["month"]}
                mc == MeanOver(I, [j \in I |-> inp.rows[j]["tmean"]])
            IN  /\ out.rows[i]["monthly_climate"] = mc
                /\ out.rows[i]["temp_anomaly"] = FSub(inp.rows[i]["tmean"], mc)

\* C9 witness: two rows of the same month in different years with different
\* tmean share one climatology
C9_Witness ==
    /\ Returned("anomalies")
    /\ \E i, j \in 1..Len(out.rows) :
          /\ out.rows[i]["month"] = out.rows[j]["month"]
          /\ out.rows[i]["date"].y # out.rows[j]["date"].y
          /\ out.rows[i]["tmean"] # out.rows[j]["tmean"]
          /\ out.rows[i]["monthly_climate"] = out.rows[j]["monthly_climate"]

\* C10: after add_temperature_anomalies the temp_anomaly values of the rows of
\* each month number sum to zero, and so does the whole column
C10_AnomaliesCancel ==
    Returned("anomalies") =>
        LET n == Len(out.rows)
            a == [i \in 1..n |-> out.rows[i]["temp_anomaly"]]
        IN  /\ \A m \in {out.rows[i]["month"] : i \in 1..n} :
                  SumOver({i \in 1..n : out.rows[i]["month"] = m}, a) = F(0)
            /\ SumOver(1..n, a) = F(0)

\* C10 witness: two months and two years, rows off their month's mean
C10_Witness ==
    /\ Returned("anomalies")
    /\ \E i, j \in 1..Len(out.rows) :
          /\ out.rows[i]["month"] # out.rows[j]["month"]
          /\ out.rows[i]["temp_anomaly"] # F(0)
    /\ \E i, j \in 1..Len(out.rows) :
          /\ out.rows[i]["month"] = out.rows[j]["month"]
          /\ out.rows[i]["date"].y # out.rows[j]["date"].y
          /\ out.rows[i]["temp_anomaly"] # out.rows[j]["temp_anomaly"]

BasicCols == {"tmean", "temp_range", "year", "month", "day_of_year", "season"}

\* C11: add_basic_features returns the rows of its input in the same number
\* and order, each with tmean = (tmax + tmin) / 2 and temp_range = tmax - tmin;
\* a row with tmax < tmin is kept, with a negative temp_range, and no column
\* other than the six derived ones is added
C11_BasicFeatures ==
    Returned("basic") =>
        /\ Len(out.rows) = Len(inp.rows)
        /\ out.cols = inp.cols \cup BasicCols
        /\ \A i \in 1..Len(inp.rows) :
              LET a == inp.rows[i]
                  b == out.rows[i]
              IN  /\ \A c \in inp.cols \ BasicCols : b[c] = a[c]
                  /\ FAdd(b["tmean"], b["tmean"]) = FAdd(a["tmax"], a["tmin"])
                  /\ FAdd(b["temp_range"], a["tmin"]) = a["tmax"]
                  /\ FLt(a["tmax"], a["tmin"]) => FLt(b["temp_range"], F(0))

\* C11 witness: a returned table with a row whose tmax is below its tmin
\* next to a row whose tmax is above it
C11_Witness ==
    /\ Returned("basic")
    /\ \E i, j \in 1..Len(out.rows) :
          /\ FLt(inp.rows[i]["tmax"], inp.rows[i]["tmin"])
          /\ out.rows[i]["temp_range"] = F(-2)
          /\ FLt(inp.rows[j]["tmin"], inp.rows[j]["tmax"])

Seasons == {"Winter", "Spring", "Summer", "Fall"}

\* C12: the season column is a total function of the month: months 12, 1, 2
\* are Winter, 3, 4, 5 Spring, 6, 7, 8 Summer and 9, 10, 11 Fall, so a table
\* whose rows cover all twelve months holds exactly four distinct seasons
C12_SeasonOfMonth ==
    Returned("basic") =>
        LET n == Len(out.rows)
            months == {inp.rows[i]["date"].m : i \in 1..n}
        IN  /\ \A i \in 1..n :
                  LET m == inp.rows[i]["date"].m
                      s == out.rows[i]["season"]
                  IN  /\ s \in Seasons
                      /\ s = "Winter" <=> m \in {12, 1, 2}
                      /\ s = "Spring" <=> m \in {3, 4, 5}
                      /\ s = "Summer" <=> m \in {6, 7, 8}
                      /\ s = "Fall" <=> m \in {9, 10, 11}
            /\ months = 1..12 =>
                  Cardinality({out.rows[i]["season"] : i \in 1..n}) = 4

\* C12 witness: a returned table that covers the twelve months, December
\* among its Winter rows
C12_Witness ==
    /\ Returned("basic")
    /\ {inp.rows[i]["date"].m : i \in 1..Len(inp.rows)} = 1..12
    /\ \E i \in 1..Len(out.rows) :
          out.rows[i]["month"] = 12 /\ out.rows[i]["season"] = "Winter"

\* the daily table process_data has built when it reaches the monthly stage
DailyStages(df, f) ==
    LET basic   == add_basic_features(df)
        rolled  == IF f.rolling THEN add_rolling_averages(basic, DefaultWindow) ELSE basic
    IN  IF f.anomaly THEN add_temperature_anomalies(rolled) ELSE rolled

\* C13: process_data runs its stages in the order basic features, rolling
\* averages, anomalies, monthly aggregation for each of the eight flag
\* combinations: the result has the rolling columns exactly when add_rolling is
\* set, temp_anomaly exactly when add_anomalies is set, one row per calendar
\* month exactly when monthly_agg is set, and the rolling and anomaly values
\* are those computed on the daily rows, aggregated afterwards
C13_StageOrder ==
    Returned("process") =>
        LET daily  == DailyStages(inp, flags)
            months == {YearMonth(inp.rows[i]["date"]) : i \in 1..Len(inp.rows)}
        IN  /\ (RollingCols \subseteq out.cols) <=> flags.rolling
            /\ (RollingCols \cap out.cols = {}) <=> ~flags.rolling
            /\ ("temp_anomaly" \in out.cols) <=> flags.anomaly
            /\ flags.monthly =>
                  /\ Len(out.rows) = Cardinality(months)
                  /\ \A i \in 1..Len(out.rows) : out.rows[i]["date"].d = 1
                  /\ "day_of_year" \notin out.cols
                  /\ out = aggregate_monthly(daily)
            /\ ~flags.monthly =>
                  /\ Len(out.rows) = Len(inp.rows)
                  /\ \A i \in 1..Len(out.rows) : out.rows[i]["date"] = inp.rows[i]["date"]
                  /\ "day_of_year" \in out.cols
                  /\ out = daily

\* C13 witness: all three flags set on a month of daily rows: the one monthly
\* row carries a rolling mean and an anomaly
C13_Witness ==
    /\ Returned("process")
    /\ flags = [rolling |-> TRUE, anomaly |-> TRUE, monthly |-> TRUE]
    /\ Len(out.rows) < Len(inp.rows)
    /\ \E i \in 1..Len(out.rows) :
          /\ ~isna(out.rows[i]["tmean_7d"])
          /\ ~isna(out.rows[i]["temp_anomaly"])

\* C14: when the table has temp_anomaly, detect_extreme_events sets extreme_heat
\* exactly on the rows with temp_anomaly > temp_threshold and extreme_cold
\* exactly on those with temp_anomaly < -temp_threshold, both strictly: an
\* anomaly of 3 under threshold 2 is heat and not cold, and under a
\* non-negative threshold no row is both; without the column the flags are
\* tmean above its 95th and below its 5th percentile in the same table
C14_ExtremeFlags ==
    Returned("detect") =>
        LET t   == thresholds.temp
            q95 == quantile(Column(inp.rows, "tmean"), 95, 100)
            q05 == quantile(Column(inp.rows, "tmean"), 5, 100)
        IN  \A i \in 1..Len(out.rows) :
                LET r == out.rows[i]
                    heat == r["extreme_heat"]
                    cold == r["extreme_cold"]
                IN  /\ heat \in BOOLEAN /\ cold \in BOOLEAN
                    /\ "temp_anomaly" \in inp.cols =>
                          LET a == r["temp_anomaly"]
                          IN  /\ heat <=> a[1] > t * a[2]
                              /\ cold <=> a[1] < (-t) * a[2]
                              /\ (a = F(3) /\ t = 2) => (heat /\ ~cold)
                              /\ t >= 0 => ~(heat /\ cold)
                    /\ "temp_anomaly" \notin inp.cols =>
                          /\ heat <=> FLt(q95, inp.rows[i]["tmean"])
                          /\ cold <=> FLt(inp.rows[i]["tmean"], q05)

\* C14 witness: under threshold 2 a row 3 above its month's mean is flagged
\* as heat next to unflagged rows 1 below it
C14_Witness ==
    /\ Returned("detect")
    /\ thresholds.temp = DefaultTempThreshold
    /\ "temp_anomaly" \in inp.cols
    /\ \E i, j \in 1..Len(out.rows) :
          /\ out.rows[i]["temp_anomaly"] = F(3)
          /\ out.rows[i]["extreme_heat"] /\ ~out.rows[i]["extreme_cold"]
          /\ out.rows[j]["temp_anomaly"] = F(-1)
          /\ ~out.rows[j]["extreme_heat"] /\ ~out.rows[j]["extreme_cold"]

\* a returned table flagged by the percentiles of tmean
C14_PercentileWitness ==
    /\ Returned("detect")
    /\ "temp_anomaly" \notin inp.cols
    /\ \E i, j \in 1..Len(out.rows) : out.rows[i]["extreme_heat"] /\ out.rows[j]["extreme_cold"]

\* what a text denotes to a reader: the calendar date it spells, if any
Spells(t, d) == d \in TextDates /\ t = strftime(d)

\* C17 as stated: validate_date_range returns True exactly when both texts
\* parse as dates, start is strictly before end and start is not before
\* 1940-01-01; a range longer than 3650 days is accepted with a warning, and a
\* text that is no date gives False
C17_ValidRange ==
    validation.done =>
        LET ok == \E s \in TextDates, e \in TextDates :
                      /\ Spells(validation.start, s) /\ Spells(validation.end, e)
                      /\ DateLe(s, e) /\ s # e
                      /\ DateLe(Date(1940, 1, 1), s)
        IN  /\ validation.value \in BOOLEAN
            /\ validation.value <=> ok
            /\ (validation.shown = "warning") => validation.value

\* C15: calculate_statistics returns count = the number of rows,
\* temperature.absolute_max = the largest tmax and temperature.absolute_min =
\* the smallest tmin, both as they stand in the table, precipitation.total =
\* the sum of precipitation and precipitation.days_with_rain = the number of
\* rows with precipitation strictly above 0
C15_Statistics ==
    (op = "statistics" /\ stats # NoStats) =>
        LET n == Len(inp.rows)
            tmax == [i \in 1..n |-> inp.rows[i]["tmax"]]
            tmin == [i \in 1..n |-> inp.rows[i]["tmin"]]
            rain == [i \in 1..n |-> inp.rows[i]["precipitation"]]
        IN  /\ stats.count = n
            /\ \E i \in 1..n : stats.temperature.absolute_max = tmax[i]
            /\ \A i \in 1..n : FLe(tmax[i], stats.temperature.absolute_max)
            /\ \E i \in 1..n : stats.temperature.absolute_min = tmin[i]
            /\ \A i \in 1..n : FLe(stats.temperature.absolute_min, tmin[i])
            /\ stats.precipitation.total = SumOver(1..n, rain)
            /\ stats.precipitation.days_with_rain =
                   Cardinality({i \in 1..n : rain[i][1] > 0 /\ rain[i][2] > 0})

\* C15 witness: statistics of a table with dry and wet days and with
\* different tmax values
C15_Witness ==
    /\ op = "statistics" /\ stats # NoStats
    /\ stats.count >= 3
    /\ stats.precipitation.days_with_rain \in 1..(stats.count - 1)
    /\ stats.precipitation.total = F(2 * stats.precipitation.days_with_rain)
    /\ stats.temperature.absolute_max = F(8)
    /\ stats.temperature.absolute_min = F(0)
    /\ \E i \in 1..Len(inp.rows) : inp.rows[i]["tmax"] = F(-1)

Operations == {"process", "basic", "rolling", "anomalies", "monthly", "detect", "statistics"}

\* C16: none of process_data, add_basic_features, add_rolling_averages,
\* add_temperature_anomalies, aggregate_monthly, detect_extreme_events and
\* calculate_statistics modifies the table it is given: after the call the
\* caller's table holds what it held before, whether the call returned or
\* raised, and the result is an object of its own
C16_InputUntouched ==
    op \in Operations => (inp_after = inp /\ fresh)

\* C16 witness: a stage has returned a table with more columns than it was
\* given, and the given table still lacks them
C16_Witness ==
    /\ op \in Operations \ {"statistics"}
    /\ out.err = ""
    /\ out.cols \ inp.cols # {}
    /\ inp_after.cols = inp.cols
    /\ fresh

Answered(method) == request.method = method /\ ~request.pending

\* C18: the WeatherAPI methods report every failure as a value and never
\* raise: search_cities returns the list under 'results' when the response
\* carries one and [] otherwise, whatever went wrong; get_historical_weather
\* returns None on a timeout, a connection or HTTP error, a body without
\* 'daily' or a daily block without one of its fields, and else a table with
\* the columns date, tmax, tmin, precipitation, windspeed_max, one row per
\* returned day, every null replaced by 0; it never returns a table that
\* lacks a column
C18_FailuresAreValues ==
    LET resp  == request.response
        whole == resp.status = "ok" /\ resp.body = "object" /\ resp.has_key
    IN  /\ Answered("search") =>
              /\ returned.kind = "list"
              /\ whole => returned.value = resp.results
              /\ ~whole => returned.value = <<>>
        /\ Answered("weather") =>
              /\ returned.kind \in {"table", "None"}
              /\ ~whole => returned = None
              /\ (\E f \in Fields \cup {"time"} : ~resp.daily[f].present) => returned = None
              /\ returned.kind = "table" =>
                    LET df   == returned.value
                        time == resp.daily["time"].values
                    IN  /\ df.err = ""
                        /\ df.cols = RawCols
                        /\ Len(df.rows) = Len(time)
                        /\ \A i \in 1..Len(time) :
                              /\ df.rows[i]["date"] = time[i]
                              /\ \A f \in Fields :
                                    LET given == IF resp.daily[f].null THEN NaN
                                                 ELSE resp.daily[f].values[i]
                                        cell  == df.rows[i][FieldColumn[f]]
                                    IN  /\ ~isna(cell)
                                        /\ isna(given) => cell = F(0)
                                        /\ ~isna(given) => cell = given

\* C18 witness: a table of two days returned from a response with a null
\* among its values
C18_Witness ==
    /\ Answered("weather")
    /\ returned.kind = "table"
    /\ Len(returned.value.rows) = 2
    /\ isna(request.response.daily["precipitation_sum"].values[1])
    /\ returned.value.rows[1]["precipitation"] = F(0)
    /\ returned.value.rows[2]["precipitation"] = F(5)

\* C19: no request is repeated: a call of search_cities or
\* get_historical_weather issues one HTTP request, and once the request has
\* failed or been answered the next request is issued only by the next call
C19_NoRetry ==
    [][/\ sent' <= 1
       /\ sent' # sent => ~request.pending
       /\ request'.pending => ~request.pending]_vars

\* C19 witness: a call has returned its failure value after one request
C19_Witness ==
    /\ Answered("weather")
    /\ request.response.status = "timeout"
    /\ returned = None
    /\ sent = 1

\* the three session entries are all absent, or all present with the city
\* and the options the stored table was computed for
SessionConsistent ==
    \/ session = NoSession
    \/ /\ session.weather_df.present
       /\ session.selected_city.present
       /\ session.analysis_options.present
       /\ session.weather_df.value.city = session.selected_city.value
       /\ session.weather_df.value.options = session.analysis_options.value

\* C20: weather_df, selected_city and analysis_options are all absent or all
\* present and from one fetch: an interaction changes none of them or, being a
\* fetch that got a table, replaces all three by the table, city and options
\* of that fetch; a search, a selection, a date change or a toggle changes none
C20_SessionFromOneFetch ==
    /\ SessionConsistent
    /\ [][/\ SessionConsistent'
          /\ session' # session =>
                /\ selected # 0
                /\ session'.weather_df = Stored([city |-> cities[selected], options |-> options])
                /\ session'.selected_city = Stored(cities[selected])
                /\ session'.analysis_options = Stored(options)
          /\ <<cities, selected, start_date, end_date, options>>' #
                 <<cities, selected, start_date, end_date, options>> => session' = session]_vars

\* C20 witness: after a fetch the user has searched again and toggled an
\* option; the session still holds the table, city and options of the fetch
C20_Witness ==
    /\ session.weather_df.present
    /\ SessionConsistent
    /\ session.analysis_options.value # options
    /\ \A k \in 1..Len(cities) : cities[k] # session.selected_city.value

\* the years of the input in which calendar month number m occurs
YearsOfMonth(m) ==
    {inp.rows[j]["date"].y : j \in {j \in 1..Len(inp.rows) : inp.rows[j]["date"].m = m}}

\* process_data has returned a monthly table that carries anomalies
AnomaliesAggregated ==
    /\ Returned("process")
    /\ flags.anomaly
    /\ flags.monthly

\* C21: after process_data with add_anomalies and monthly_agg, every output
\* row whose calendar month number occurs in only one year of the input has
\* temp_anomaly zero; so an input confined to one calendar year has a zero
\* temp_anomaly in every row, and a row with a non-zero temp_anomaly belongs
\* to a month number that occurs in more than one year
C21_SingleYearMonthsZero ==
    AnomaliesAggregated =>
        LET n == Len(out.rows)
        IN  /\ \A k \in 1..n :
                  Cardinality(YearsOfMonth(out.rows[k]["date"].m)) = 1 =>
                      out.rows[k]["temp_anomaly"] = F(0)
            /\ Cardinality({inp.rows[j]["date"].y : j \in 1..Len(inp.rows)}) = 1 =>
                  \A k \in 1..n : out.rows[k]["temp_anomaly"] = F(0)
            /\ \A k \in 1..n :
                  out.rows[k]["temp_anomaly"] # F(0) =>
                      Cardinality(YearsOfMonth(out.rows[k]["date"].m)) > 1

\* C21 witness: the input spans two years; one month number occurs in one
\* year only and its row is zero although another month of the same season
\* has a different mean temperature, and a month number that occurs in both
\* years has a non-zero aggregated anomaly
C21_Witness ==
    /\ AnomaliesAggregated
    /\ \E k, l \in 1..Len(out.rows) :
          /\ Cardinality(YearsOfMonth(out.rows[k]["date"].m)) = 1
          /\ out.rows[k]["temp_anomaly"] = F(0)
          /\ out.rows[k]["tmean"] # out.rows[l]["tmean"]
          /\ Cardinality(YearsOfMonth(out.rows[l]["date"].m)) > 1
          /\ out.rows[l]["temp_anomaly"] # F(0)

\* C21 witness of the within-month case: a month that occurs in one year
\* only has days of different mean temperature, and its row is still zero
C21_WithinMonthWitness ==
    /\ AnomaliesAggregated
    /\ \E k \in 1..Len(out.rows) :
          /\ Cardinality(YearsOfMonth(out.rows[k]["date"].m)) = 1
          /\ out.rows[k]["temp_anomaly"] = F(0)
          /\ \E i, j \in 1..Len(inp.rows) :
                /\ inp.rows[i]["date"].m = out.rows[k]["date"].m
                /\ inp.rows[j]["date"].m = out.rows[k]["date"].m
                /\ FSub(inp.rows[i]["tmax"], inp.rows[j]["tmax"]) # F(0)

====
